---- MODULE Spec2Model ----
(***************************************************************************)
(* A model of bert_downstream_classification.py.                           *)
(*                                                                         *)
(*   Spec       main(): argument parsing, the test-mode switch, and the    *)
(*              data pipeline read -> preprocessing -> label reindexing -> *)
(*              output_split -> datasets/loaders -> train(...)             *)
(*   SpecBatch  OnlineQueryDataset.__getitem__ and create_mini_batch       *)
(*   SpecTrain  Model.train, Model.predict and get_predictions             *)
(*                                                                         *)
(* A dataframe is a sequence of rows [id, index, question]: id is the      *)
(* pandas row label, index the label column, question the text column.     *)
(* A text is a sequence of characters.  A random sample is a               *)
(* nondeterministic choice of the rows; the rows of a sample are kept in   *)
(* frame order (no operation of the program reads the order of a sample).  *)
(***************************************************************************)
EXTENDS Integers, Sequences, FiniteSets, TLC

VARIABLES
    \* ---- main ----
    pc,            \* position in main
    argv,          \* the command line
    args,          \* the parsed arguments (NoArgs before parse_args returns)
    raw,           \* the content of the data file, once read
    df,            \* main's dataframe df
    label2index,   \* main's label2index dict
    num_labels,    \* main's num_labels
    df_train, df_val, df_test,   \* the three splits
    effects,       \* what the run has done so far (printed, read, built, ...)
    exc,           \* the exception that ended the run, or "none"
    \* ---- OnlineQueryDataset / create_mini_batch ----
    mode,          \* the dataset's mode
    samples,       \* the samples fetched for the current batch
    batch,         \* what create_mini_batch returned for them (NoBatch before)
    \* ---- Model.train / Model.predict / get_predictions ----
    t_pc,          \* position in Model.train, save_model, predict
    n_train, n_val, n_test,   \* sizes of the three datasets behind the loaders
    batch_size,    \* the loaders' batch size
    epochs,        \* the epochs argument of train
    epoch,         \* the loop variable of line 264
    batch_i,       \* training batches fetched in the current epoch
    batch_ops,     \* the operations done so far for the current training batch
    opt_steps,     \* calls of optimizer.step() so far
    val_evals,     \* calls of get_predictions on valloader so far
    gp,            \* the running call of get_predictions
    gp_result,     \* how the last call of get_predictions ended
    t_exc          \* the exception that ended train/predict, or "none"

mainVars == <<pc, argv, args, raw, df, label2index, num_labels,
              df_train, df_val, df_test, effects, exc>>

batchVars == <<mode, samples, batch>>

trainVars == <<t_pc, n_train, n_val, n_test, batch_size, epochs, epoch, batch_i,
               batch_ops, opt_steps, val_evals, gp, gp_result, t_exc>>

vars == <<mainVars, batchVars, trainVars>>

----------------------------------------------------------------------------
(* Bounds and input sets *)

MaxRows == 4

Labels == {1, 2}
Questions == {<<1>>, <<2>>, <<1, 1>>}
MinEachGroups == {1, 2}
MaxLengths == {1, 2}

RawRecords == [index : Labels, question : Questions]
RawFiles == UNION {[1..n -> RawRecords] : n \in 0..MaxRows}

NoArgs == [parsed |-> FALSE]
NoFrame == <<>>
NoDict == <<>>
NoBatch == [made |-> FALSE]
NoCall == [active |-> FALSE]
NoResult == [status |-> "none"]

\* the components a specification does not run stay in these states
MainIdle ==
    /\ pc = "idle"
    /\ argv = NoArgs
    /\ args = NoArgs
    /\ raw = <<>>
    /\ df = NoFrame
    /\ label2index = NoDict
    /\ num_labels = 0
    /\ df_train = NoFrame
    /\ df_val = NoFrame
    /\ df_test = NoFrame
    /\ effects = {}
    /\ exc = "none"

BatchIdle ==
    /\ mode = "idle"
    /\ samples = <<>>
    /\ batch = NoBatch

TrainIdle ==
    /\ t_pc = "idle"
    /\ n_train = 0
    /\ n_val = 0
    /\ n_test = 0
    /\ batch_size = 0
    /\ epochs = 0
    /\ epoch = 0
    /\ batch_i = 0
    /\ batch_ops = <<>>
    /\ opt_steps = 0
    /\ val_evals = 0
    /\ gp = NoCall
    /\ gp_result = NoResult
    /\ t_exc = "none"

----------------------------------------------------------------------------
(* Dataframe helpers (pandas operations used by the program) *)

\* the rows of frame d at the positions in keep, in order (d[mask])
FilterPos(d, keep) ==
    LET F[i \in 0..Len(d)] ==
            IF i = 0 THEN <<>>
            ELSE IF i \in keep THEN Append(F[i - 1], d[i]) ELSE F[i - 1]
    IN F[Len(d)]

\* the value of a row over the columns index, question
RowValue(r) == <<r.index, r.question>>

\* DataFrame.drop_duplicates(): keep the first row of every value
DropDuplicates(d) ==
    FilterPos(d, {i \in 1..Len(d) : \A j \in 1..(i - 1) : RowValue(d[j]) # RowValue(d[i])})

\* DataFrame.drop_duplicates(keep=False): drop every row whose value occurs twice
DropDuplicatesKeepFalse(d) ==
    FilterPos(d, {i \in 1..Len(d) : \A j \in 1..Len(d) : j # i => RowValue(d[j]) # RowValue(d[i])})

\* the set of values of the column "index"
LabelSet(d) == {d[i].index : i \in 1..Len(d)}

\* df["index"].value_counts(): label -> number of rows
ValueCounts(d) ==
    [l \in LabelSet(d) |-> Cardinality({i \in 1..Len(d) : d[i].index = l})]

\* Series.unique(): the distinct values in order of first appearance
Unique(d) ==
    LET firsts == FilterPos(d, {i \in 1..Len(d) : \A j \in 1..(i - 1) : d[j].index # d[i].index})
    IN [i \in 1..Len(firsts) |-> firsts[i].index]

\* Python's round() of the rational num / den (den > 0): half to even
Round(num, den) ==
    LET q == num \div den
        r == num % den
    IN IF 2 * r < den THEN q
       ELSE IF 2 * r > den THEN q + 1
       ELSE IF q % 2 = 0 THEN q ELSE q + 1

Ids(d) == {d[i].id : i \in 1..Len(d)}


\* the rows of frame d that are not too long (line 17)
NotTooLong(d, max_length) ==
    FilterPos(d, {i \in 1..Len(d) : ~(Len(d[i].question) > max_length)})

\* the rows of frame d whose label is in list_idx (line 26)
IsIn(d, list_idx) == FilterPos(d, {i \in 1..Len(d) : d[i].index \in list_idx})

\* the ascending sequence of the elements of a finite set of integers
RECURSIVE SortedSeq(_)
SortedSeq(S) ==
    IF S = {} THEN <<>>
    ELSE LET m == CHOOSE x \in S : \A y \in S : x <= y
         IN <<m>> \o SortedSeq(S \ {m})

----------------------------------------------------------------------------
(* The program's functions *)

\* read_online_query: the file's records with a RangeIndex 0, 1, ...
ReadOnlineQuery(file) ==
    [i \in 1..Len(file) |->
        [id |-> i - 1, index |-> file[i].index, question |-> file[i].question]]

\* filter_toofew_toolong with the group counts taken on its input
FilterTooFewTooLong_CountOnInput(d, min_each_group, max_length) ==
    LET counts == ValueCounts(d)
        list_idx == {i \in DOMAIN counts : counts[i] >= min_each_group}
    IN IsIn(NotTooLong(d, max_length), list_idx)

FilterTooFewTooLong(d, min_each_group, max_length) ==
    LET short == NotTooLong(d, max_length)
        counts == ValueCounts(short)
        list_idx == {i \in DOMAIN counts : counts[i] >= min_each_group}
    IN IsIn(short, list_idx)

\* create_label2index numbering the labels by row position (no unique())
CreateLabel2Index_NoUnique(d) ==
    [l \in LabelSet(d) |->
        (CHOOSE i \in 1..Len(d) : d[i].index = l /\ \A j \in (i + 1)..Len(d) : d[j].index # l) - 1]

CreateLabel2Index(d) ==
    LET u == Unique(d)
    IN [l \in LabelSet(d) |-> (CHOOSE i \in 1..Len(u) : u[i] = l) - 1]

Reindex(d, l2i) ==
    [i \in 1..Len(d) |-> [d[i] EXCEPT !.index = l2i[d[i].index]]]

GetNumLabels(d) == Cardinality(DOMAIN ValueCounts(d))

\* DataFrame.sample truncating frac * len instead of rounding it
Sample_Truncate(d, tenths) ==
    {FilterPos(d, {i \in 1..Len(d) : d[i].id \in S}) :
        S \in {T \in SUBSET Ids(d) : Cardinality(T) = (tenths * Len(d)) \div 10}}

\* DataFrame.sample(frac = tenths / 10): the possible samples, drawn
\* without replacement, round(frac * len) rows each
Sample(d, tenths) ==
    {FilterPos(d, {i \in 1..Len(d) : d[i].id \in S}) :
        S \in {T \in SUBSET Ids(d) : Cardinality(T) = Round(tenths * Len(d), 10)}}

\* bootstrap: one sample per label class, the classes in key order
Bootstrap(data, tenths) ==
    LET keys == SortedSeq(LabelSet(data))
        B[k \in 0..Len(keys)] ==
            IF k = 0 THEN {<<>>}
            ELSE {p \o s : p \in B[k - 1],
                           s \in Sample(IsIn(data, {keys[k]}), tenths)}
    IN B[Len(keys)]

\* preprocessing without its drop_duplicates()
SelectAndDropDuplicates_KeepAll(d) == d

\* preprocessing, lines 48-49: the two columns, duplicates dropped
SelectAndDropDuplicates(d) == DropDuplicates(d)

TrainFractionTenths == 7
ValFractionTenths == 5

\* output_split: the possible (df_train, df_val, df_test).  df_val is drawn
\* with a fixed seed (random_state = 5); which rows that seed picks is left
\* open here.
OutputSplit(d, tenths) ==
    UNION {LET df_remain == DropDuplicatesKeepFalse(t \o d)
           IN {[train |-> t, val |-> v,
                test |-> DropDuplicatesKeepFalse(v \o df_remain)] :
                  v \in Sample(df_remain, ValFractionTenths)} :
           t \in Bootstrap(d, tenths)}

----------------------------------------------------------------------------
(* main *)

Argvs ==
    [data_path : BOOLEAN, model_output : BOOLEAN, do_test : BOOLEAN,
     model_start : BOOLEAN, min_each_group : MinEachGroups, maxlength : MaxLengths]

MainInit ==
    /\ pc = "parse_args"
    /\ argv \in Argvs
    /\ args = NoArgs
    /\ raw = <<>>
    /\ df = NoFrame
    /\ label2index = NoDict
    /\ num_labels = 0
    /\ df_train = NoFrame
    /\ df_val = NoFrame
    /\ df_test = NoFrame
    /\ effects = {}
    /\ exc = "none"

\* line 380: parse_args exits when a required argument is missing
ParseArgs ==
    /\ pc = "parse_args"
    /\ UNCHANGED <<batchVars, trainVars>>
    /\ IF argv.data_path /\ argv.model_output
       THEN /\ args' = [parsed |-> TRUE, do_test |-> argv.do_test,
                        model_start |-> argv.model_start,
                        min_each_group |-> argv.min_each_group,
                        maxlength |-> argv.maxlength]
            /\ pc' = "do_test"
            /\ exc' = exc
       ELSE /\ args' = args
            /\ pc' = "exited"
            /\ exc' = "SystemExit"
    /\ UNCHANGED <<argv, raw, df, label2index, num_labels, df_train, df_val,
                   df_test, effects>>

\* the test-mode branch printing the message and then falling through to
\* line 386 (no return)
TestModeNoModel_NoReturn ==
    /\ pc = "do_test"
    /\ UNCHANGED <<batchVars, trainVars>>
    /\ args.do_test
    /\ ~args.model_start
    /\ effects' = effects \cup {"printed_provide_model"}
    /\ pc' = "raised"
    /\ exc' = "NameError"
    /\ UNCHANGED <<argv, args, raw, df, label2index, num_labels, df_train,
                   df_val, df_test>>

\* lines 382-385: test mode without a starting model
TestModeNoModel ==
    /\ pc = "do_test"
    /\ UNCHANGED <<batchVars, trainVars>>
    /\ args.do_test
    /\ ~args.model_start
    /\ effects' = effects \cup {"printed_provide_model"}
    /\ pc' = "returned"
    /\ UNCHANGED <<argv, args, raw, df, label2index, num_labels, df_train,
                   df_val, df_test, exc>>

\* line 386: test mode with a starting model calls predict(...), a name the
\* module does not define
TestModePredict ==
    /\ pc = "do_test"
    /\ UNCHANGED <<batchVars, trainVars>>
    /\ args.do_test
    /\ args.model_start
    /\ pc' = "raised"
    /\ exc' = "NameError"
    /\ UNCHANGED <<argv, args, raw, df, label2index, num_labels, df_train,
                   df_val, df_test, effects>>

\* line 390
MainReadOnlineQuery ==
    /\ pc = "do_test"
    /\ UNCHANGED <<batchVars, trainVars>>
    /\ ~args.do_test
    /\ \E file \in RawFiles :
          /\ raw' = file
          /\ df' = ReadOnlineQuery(file)
    /\ effects' = effects \cup {"read_data"}
    /\ pc' = "preprocessing"
    /\ UNCHANGED <<argv, args, label2index, num_labels, df_train, df_val,
                   df_test, exc>>

\* line 391, preprocessing lines 48-49
MainSelectAndDropDuplicates ==
    /\ pc = "preprocessing"
    /\ UNCHANGED <<batchVars, trainVars>>
    /\ df' = SelectAndDropDuplicates(df)
    /\ pc' = "filter_toofew_toolong"
    /\ UNCHANGED <<argv, args, raw, label2index, num_labels, df_train, df_val,
                   df_test, effects, exc>>

\* line 391, preprocessing line 50
MainFilterTooFewTooLong ==
    /\ pc = "filter_toofew_toolong"
    /\ UNCHANGED <<batchVars, trainVars>>
    /\ df' = FilterTooFewTooLong(df, args.min_each_group, args.maxlength)
    /\ pc' = "create_label2index"
    /\ UNCHANGED <<argv, args, raw, label2index, num_labels, df_train, df_val,
                   df_test, effects, exc>>

\* line 392
MainCreateLabel2Index ==
    /\ pc = "create_label2index"
    /\ UNCHANGED <<batchVars, trainVars>>
    /\ label2index' = CreateLabel2Index(df)
    /\ pc' = "reindex"
    /\ UNCHANGED <<argv, args, raw, df, num_labels, df_train, df_val, df_test,
                   effects, exc>>

\* lines 394-395
MainReindex ==
    /\ pc = "reindex"
    /\ UNCHANGED <<batchVars, trainVars>>
    /\ df' = Reindex(df, label2index)
    /\ num_labels' = GetNumLabels(df')
    /\ pc' = "output_split"
    /\ UNCHANGED <<argv, args, raw, label2index, df_train, df_val, df_test,
                   effects, exc>>

\* line 397.  On an empty frame groupby-apply returns a frame with a
\* one-level index and bootstrap's get_level_values(1) raises IndexError.
MainOutputSplit ==
    /\ pc = "output_split"
    /\ UNCHANGED <<batchVars, trainVars>>
    /\ IF Len(df) = 0
       THEN /\ pc' = "raised"
            /\ exc' = "IndexError"
            /\ UNCHANGED <<df_train, df_val, df_test>>
       ELSE /\ \E s \in OutputSplit(df, TrainFractionTenths) :
                  /\ df_train' = s.train
                  /\ df_val' = s.val
                  /\ df_test' = s.test
            /\ pc' = "datasets"
            /\ exc' = exc
    /\ UNCHANGED <<argv, args, raw, df, label2index, num_labels, effects>>

\* lines 399-420: tokenizer, the three datasets and their loaders
MainBuildLoaders ==
    /\ pc = "datasets"
    /\ UNCHANGED <<batchVars, trainVars>>
    /\ effects' = effects \cup {"built_datasets"}
    /\ pc' = "train"
    /\ UNCHANGED <<argv, args, raw, df, label2index, num_labels, df_train,
                   df_val, df_test, exc>>

\* line 422: train(...) is a name the module does not define (train is a
\* method of Model), so the call raises NameError.  Lines 423-433 (save_model,
\* get_predictions, write_prediction, plain_accuracy) are never reached.
MainCallTrain ==
    /\ pc = "train"
    /\ UNCHANGED <<batchVars, trainVars>>
    /\ pc' = "raised"
    /\ exc' = "NameError"
    /\ UNCHANGED <<argv, args, raw, df, label2index, num_labels, df_train,
                   df_val, df_test, effects>>

Init == MainInit /\ BatchIdle /\ TrainIdle

Next ==
    \/ ParseArgs
    \/ TestModeNoModel
    \/ TestModePredict
    \/ MainReadOnlineQuery
    \/ MainSelectAndDropDuplicates
    \/ MainFilterTooFewTooLong
    \/ MainCreateLabel2Index
    \/ MainReindex
    \/ MainOutputSplit
    \/ MainBuildLoaders
    \/ MainCallTrain

Spec == Init /\ [][Next]_vars

----------------------------------------------------------------------------
(* OnlineQueryDataset.__getitem__ and create_mini_batch *)

MaxBatch == 2
MaxTextLen == 2

\* the word pieces a text can be made of; "[PAD]" is the literal text of the
\* tokenizer's padding token, which the tokenizer keeps as one piece
Pieces == {"[PAD]", "a"}
Texts == UNION {[1..n -> Pieces] : n \in 0..MaxTextLen}
Classes == {0, 1}
Modes == {"train", "val", "test"}

Max(S) == CHOOSE x \in S : \A y \in S : y <= x

\* tokenizer.convert_tokens_to_ids over the pretrained vocabulary
ConvertTokensToIds(word_pieces) ==
    [i \in 1..Len(word_pieces) |->
        CASE word_pieces[i] = "[PAD]" -> 0
          [] word_pieces[i] = "[CLS]" -> 101
          [] word_pieces[i] = "[SEP]" -> 102
          [] OTHER -> 143]

\* OnlineQueryDataset.__getitem__ for a row (label, text)
GetItem(m, label, text) ==
    LET word_pieces == <<"[CLS]">> \o text \o <<"[SEP]">>
        len_a == Len(word_pieces)
    IN [tokens_tensor |-> ConvertTokensToIds(word_pieces),
        segments_tensor |-> [i \in 1..len_a |-> 1],
        label_tensor |-> IF m = "test" THEN [none |-> TRUE, v |-> 0]
                         ELSE [none |-> FALSE, v |-> label]]

\* pad_sequence padding in front of the sequence
PadSequence_Left(seqs) ==
    LET m == Max({Len(seqs[i]) : i \in 1..Len(seqs)})
    IN [i \in 1..Len(seqs) |->
          [j \in 1..m |-> IF j > m - Len(seqs[i]) THEN seqs[i][j - (m - Len(seqs[i]))] ELSE 0]]

\* torch pad_sequence(seqs, batch_first=True): right padding with 0 to the
\* longest sequence
PadSequence(seqs) ==
    LET m == Max({Len(seqs[i]) : i \in 1..Len(seqs)})
    IN [i \in 1..Len(seqs) |->
          [j \in 1..m |-> IF j <= Len(seqs[i]) THEN seqs[i][j] ELSE 0]]

\* create_mini_batch(samples), samples non-empty
CreateMiniBatch(ss) ==
    LET tokens_tensors == PadSequence([i \in 1..Len(ss) |-> ss[i].tokens_tensor])
        segments_tensors == PadSequence([i \in 1..Len(ss) |-> ss[i].segments_tensor])
        zeros == [i \in 1..Len(tokens_tensors) |->
                    [j \in 1..Len(tokens_tensors[i]) |-> 0]]
        masks_tensors == [i \in 1..Len(zeros) |->
                    [j \in 1..Len(zeros[i]) |->
                        IF tokens_tensors[i][j] # 0 THEN 1 ELSE zeros[i][j]]]
    IN [made |-> TRUE,
        tokens_tensors |-> tokens_tensors,
        segments_tensors |-> segments_tensors,
        masks_tensors |-> masks_tensors,
        label_ids |-> IF ~ss[1].label_tensor.none
                      THEN [none |-> FALSE,
                            v |-> [i \in 1..Len(ss) |-> ss[i].label_tensor.v]]
                      ELSE [none |-> TRUE, v |-> <<>>]]

BatchInit ==
    /\ mode \in Modes
    /\ samples = <<>>
    /\ batch = NoBatch

\* the loader fetches the next sample of the batch from the dataset
FetchSample ==
    /\ ~batch.made
    /\ Len(samples) < MaxBatch
    /\ \E label \in Classes, text \in Texts :
          samples' = Append(samples, GetItem(mode, label, text))
    /\ UNCHANGED <<mode, batch>>
    /\ UNCHANGED <<mainVars, trainVars>>

\* the loader collates the fetched samples (it never collates an empty list)
Collate ==
    /\ ~batch.made
    /\ Len(samples) > 0
    /\ batch' = CreateMiniBatch(samples)
    /\ UNCHANGED <<mode, samples>>
    /\ UNCHANGED <<mainVars, trainVars>>

InitBatch == MainIdle /\ BatchInit /\ TrainIdle

NextBatch ==
    \/ FetchSample
    \/ Collate

SpecBatch == InitBatch /\ [][NextBatch]_vars

----------------------------------------------------------------------------
(* Model.train, Model.save_model, Model.predict and get_predictions *)
(*                                                                         *)
(* A loader is a DataLoader over a dataset of n samples with the given     *)
(* batch size: it yields ceil(n / batch_size) batches, all full but        *)
(* possibly the last.  The labels of a batch and the classes the network   *)
(* predicts for it are drawn when the batch is processed.                  *)

MaxSamples == 2
MaxBatchSize == 2
MaxEpochs == 2

\* number of batches a loader over n samples yields
NumBatches(n) == (n + batch_size - 1) \div batch_size

\* size of the k-th batch (k = 1, 2, ...) of a loader over n samples
BatchLen(n, k) ==
    IF k * batch_size <= n THEN batch_size ELSE n - (k - 1) * batch_size

FullBatchOps == <<"zero_grad", "forward", "backward", "clip_grad_norm", "step">>

\* the state of a call get_predictions(model, loader over n, compute_acc)
\* at line 202-204
Call(site, n, compute_acc) ==
    [active |-> TRUE, site |-> site, n |-> n, compute_acc |-> compute_acc,
     b |-> 0, seen |-> 0, correct |-> 0, total |-> 0,
     predictions |-> [none |-> TRUE, v |-> <<>>]]

TrainInit ==
    /\ t_pc = "constructed"
    /\ n_train \in 0..MaxSamples
    /\ n_val \in 0..MaxSamples
    /\ n_test \in 0..MaxSamples
    /\ batch_size \in 1..MaxBatchSize
    /\ epochs \in 0..MaxEpochs
    /\ epoch = 0
    /\ batch_i = 0
    /\ batch_ops = <<>>
    /\ opt_steps = 0
    /\ val_evals = 0
    /\ gp = NoCall
    /\ gp_result = NoResult
    /\ t_exc = "none"

\* train, lines 256-259: the initial accuracy on the training set
TrainBegin ==
    /\ t_pc = "constructed"
    /\ gp' = Call("initial", n_train, TRUE)
    /\ t_pc' = "get_predictions"
    /\ UNCHANGED <<n_train, n_val, n_test, batch_size, epochs, epoch, batch_i,
                   batch_ops, opt_steps, val_evals, gp_result, t_exc>>
    /\ UNCHANGED <<mainVars, batchVars>>

\* get_predictions, lines 207-230: one batch of the loader
GetPredictionsBatch ==
    /\ t_pc = "get_predictions"
    /\ gp.b < NumBatches(gp.n)
    /\ LET k == BatchLen(gp.n, gp.b + 1)
       IN \E pred \in [1..k -> Classes], labels \in [1..k -> Classes] :
            gp' = [gp EXCEPT
                     !.b = @ + 1,
                     !.seen = @ + k,
                     !.total = IF gp.compute_acc THEN @ + k ELSE @,
                     !.correct = IF gp.compute_acc
                                 THEN @ + Cardinality({i \in 1..k : pred[i] = labels[i]})
                                 ELSE @,
                     !.predictions = [none |-> FALSE, v |-> gp.predictions.v \o pred]]
    /\ UNCHANGED <<t_pc, n_train, n_val, n_test, batch_size, epochs, epoch,
                   batch_i, batch_ops, opt_steps, val_evals, gp_result, t_exc>>
    /\ UNCHANGED <<mainVars, batchVars>>

\* get_predictions, lines 232-235, and the caller's next statement: the
\* division correct / total raises ZeroDivisionError when the loader yielded
\* no batch; predict's .detach() raises AttributeError on the None that
\* get_predictions returns for such a loader
GetPredictionsReturn ==
    /\ t_pc = "get_predictions"
    /\ gp.b = NumBatches(gp.n)
    /\ gp' = [gp EXCEPT !.active = FALSE]
    /\ IF gp.compute_acc /\ gp.total = 0
       THEN /\ gp_result' = [status |-> "raised", site |-> gp.site,
                             predictions |-> gp.predictions,
                             acc |-> <<gp.correct, gp.total>>]
            /\ t_pc' = "raised"
            /\ t_exc' = "ZeroDivisionError"
            /\ epoch' = epoch
       ELSE /\ gp_result' = [status |-> "returned", site |-> gp.site,
                             predictions |-> gp.predictions,
                             acc |-> <<gp.correct, gp.total>>]
            /\ IF gp.site = "predict" /\ gp.predictions.none
               THEN t_pc' = "raised" /\ t_exc' = "AttributeError"
               ELSE /\ t_exc' = t_exc
                    /\ t_pc' = CASE gp.site = "initial" -> "epoch_head"
                                 [] gp.site = "train_acc" -> "validation"
                                 [] gp.site = "validation" -> "epoch_head"
                                 [] OTHER -> "predicted"
            /\ epoch' = IF gp.site = "validation" THEN epoch + 1 ELSE epoch
    /\ UNCHANGED <<n_train, n_val, n_test, batch_size, epochs, batch_i,
                   batch_ops, opt_steps, val_evals>>
    /\ UNCHANGED <<mainVars, batchVars>>

\* train, lines 264-272: the next epoch begins
EpochBegin ==
    /\ t_pc = "epoch_head"
    /\ epoch < epochs
    /\ batch_i' = 0
    /\ batch_ops' = <<>>
    /\ t_pc' = "batch_head"
    /\ UNCHANGED <<n_train, n_val, n_test, batch_size, epochs, epoch,
                   opt_steps, val_evals, gp, gp_result, t_exc>>
    /\ UNCHANGED <<mainVars, batchVars>>

\* train, lines 274-276: the next training batch is fetched
FetchTrainBatch ==
    /\ t_pc = "batch_head"
    /\ batch_i < NumBatches(n_train)
    /\ batch_i' = batch_i + 1
    /\ batch_ops' = <<>>
    /\ t_pc' = "zero_grad"
    /\ UNCHANGED <<n_train, n_val, n_test, batch_size, epochs, epoch,
                   opt_steps, val_evals, gp, gp_result, t_exc>>
    /\ UNCHANGED <<mainVars, batchVars>>

\* train, line 279
ZeroGrad ==
    /\ t_pc = "zero_grad"
    /\ batch_ops' = Append(batch_ops, "zero_grad")
    /\ t_pc' = "forward"
    /\ UNCHANGED <<n_train, n_val, n_test, batch_size, epochs, epoch, batch_i,
                   opt_steps, val_evals, gp, gp_result, t_exc>>
    /\ UNCHANGED <<mainVars, batchVars>>

\* train, lines 282-287
Forward ==
    /\ t_pc = "forward"
    /\ batch_ops' = Append(batch_ops, "forward")
    /\ t_pc' = "backward"
    /\ UNCHANGED <<n_train, n_val, n_test, batch_size, epochs, epoch, batch_i,
                   opt_steps, val_evals, gp, gp_result, t_exc>>
    /\ UNCHANGED <<mainVars, batchVars>>

\* train, line 289
Backward ==
    /\ t_pc = "backward"
    /\ batch_ops' = Append(batch_ops, "backward")
    /\ t_pc' = "clip_grad_norm"
    /\ UNCHANGED <<n_train, n_val, n_test, batch_size, epochs, epoch, batch_i,
                   opt_steps, val_evals, gp, gp_result, t_exc>>
    /\ UNCHANGED <<mainVars, batchVars>>

\* train, line 293
ClipGradNorm ==
    /\ t_pc = "clip_grad_norm"
    /\ batch_ops' = Append(batch_ops, "clip_grad_norm")
    /\ t_pc' = "step"
    /\ UNCHANGED <<n_train, n_val, n_test, batch_size, epochs, epoch, batch_i,
                   opt_steps, val_evals, gp, gp_result, t_exc>>
    /\ UNCHANGED <<mainVars, batchVars>>

\* train, lines 294-297
OptimizerStep ==
    /\ t_pc = "step"
    /\ batch_ops' = Append(batch_ops, "step")
    /\ opt_steps' = opt_steps + 1
    /\ t_pc' = "batch_head"
    /\ UNCHANGED <<n_train, n_val, n_test, batch_size, epochs, epoch, batch_i,
                   val_evals, gp, gp_result, t_exc>>
    /\ UNCHANGED <<mainVars, batchVars>>

\* train, line 300: the epoch's accuracy on the training set
EpochTrainAcc ==
    /\ t_pc = "batch_head"
    /\ batch_i = NumBatches(n_train)
    /\ gp' = Call("train_acc", n_train, TRUE)
    /\ t_pc' = "get_predictions"
    /\ UNCHANGED <<n_train, n_val, n_test, batch_size, epochs, epoch, batch_i,
                   batch_ops, opt_steps, val_evals, gp_result, t_exc>>
    /\ UNCHANGED <<mainVars, batchVars>>

\* train, lines 302-306: the epoch's validation
EpochValidation ==
    /\ t_pc = "validation"
    /\ gp' = Call("validation", n_val, TRUE)
    /\ val_evals' = val_evals + 1
    /\ t_pc' = "get_predictions"
    /\ UNCHANGED <<n_train, n_val, n_test, batch_size, epochs, epoch, batch_i,
                   batch_ops, opt_steps, gp_result, t_exc>>
    /\ UNCHANGED <<mainVars, batchVars>>

\* train, lines 310-311
TrainReturn ==
    /\ t_pc = "epoch_head"
    /\ epoch = epochs
    /\ t_pc' = "trained"
    /\ UNCHANGED <<n_train, n_val, n_test, batch_size, epochs, epoch, batch_i,
                   batch_ops, opt_steps, val_evals, gp, gp_result, t_exc>>
    /\ UNCHANGED <<mainVars, batchVars>>

\* save_model, lines 313-324
SaveModel ==
    /\ t_pc = "trained"
    /\ t_pc' = "saved"
    /\ UNCHANGED <<n_train, n_val, n_test, batch_size, epochs, epoch, batch_i,
                   batch_ops, opt_steps, val_evals, gp, gp_result, t_exc>>
    /\ UNCHANGED <<mainVars, batchVars>>

\* predict, lines 328-332
Predict ==
    /\ t_pc = "saved"
    /\ gp' = Call("predict", n_test, FALSE)
    /\ t_pc' = "get_predictions"
    /\ UNCHANGED <<n_train, n_val, n_test, batch_size, epochs, epoch, batch_i,
                   batch_ops, opt_steps, val_evals, gp_result, t_exc>>
    /\ UNCHANGED <<mainVars, batchVars>>

InitTrain == MainIdle /\ BatchIdle /\ TrainInit

NextTrain ==
    \/ TrainBegin
    \/ GetPredictionsBatch
    \/ GetPredictionsReturn
    \/ EpochBegin
    \/ FetchTrainBatch
    \/ ZeroGrad
    \/ Forward
    \/ Backward
    \/ ClipGradNorm
    \/ OptimizerStep
    \/ EpochTrainAcc
    \/ EpochValidation
    \/ TrainReturn
    \/ SaveModel
    \/ Predict

SpecTrain == InitTrain /\ [][NextTrain]_vars

----------------------------------------------------------------------------
(* Properties of main and the data pipeline (checked under Spec) *)

\* the label a row of a frame carried in the data file
Orig(r) == raw[r.id + 1].index

\* the run is past create_label2index / reindex / output_split
AfterCreateLabel2Index ==
    \/ pc \in {"reindex", "output_split", "datasets", "train"}
    \/ pc = "raised" /\ "read_data" \in effects
AfterReindex ==
    \/ pc \in {"output_split", "datasets", "train"}
    \/ pc = "raised" /\ "read_data" \in effects
SplitDone ==
    \/ pc \in {"datasets", "train"}
    \/ pc = "raised" /\ "built_datasets" \in effects

RowSet(d) == {d[i] : i \in 1..Len(d)}
ClassRows(d, l) == {r \in RowSet(d) : r.index = l}

\* n is Python's round(tenths / 10 * c)
IsRounded(n, tenths, c) ==
    LET dlt == 10 * n - tenths * c
    IN /\ -5 <= dlt
       /\ dlt <= 5
       /\ (dlt = 5 \/ dlt = -5) => n % 2 = 0

\* C1: filter_toofew_toolong returns exactly the records r of its input with
\* len(r.question) <= max_length whose label has at least min_each_group
\* input records of length <= max_length (the count is taken on the
\* length-filtered set), in input order.
C1_FilterKeepsShortRowsOfLargeGroups ==
    [][(pc = "filter_toofew_toolong" /\ pc' = "create_label2index") =>
         df' = FilterPos(df, {i \in 1..Len(df) :
                 /\ Len(df[i].question) <= args.maxlength
                 /\ Cardinality({j \in 1..Len(df) :
                        /\ df[j].index = df[i].index
                        /\ Len(df[j].question) <= args.maxlength})
                      >= args.min_each_group})]_vars

\* a run where the filter dropped a too-long record, dropped a short record
\* whose label had enough records only before the length filter, and kept
\* some record
C1_Witness ==
    /\ pc = "create_label2index"
    /\ Len(df) > 0
    /\ \E i \in 1..Len(raw) : Len(raw[i].question) > args.maxlength
    /\ \E i \in 1..Len(raw) :
          /\ Len(raw[i].question) <= args.maxlength
          /\ \A k \in 1..Len(df) : Orig(df[k]) # raw[i].index
          /\ Cardinality({RowValue(raw[j]) : j \in {j \in 1..Len(raw) :
                 raw[j].index = raw[i].index}}) >= args.min_each_group

\* C2: the three splits returned by output_split are pairwise disjoint and
\* their union is exactly the set of records of df: every record of the
\* filtered dataset is in exactly one split.
C2_SplitsPartitionDf ==
    SplitDone =>
        /\ Ids(df_train) \cap Ids(df_val) = {}
        /\ Ids(df_train) \cap Ids(df_test) = {}
        /\ Ids(df_val) \cap Ids(df_test) = {}
        /\ {RowValue(r) : r \in RowSet(df_train)} \cap {RowValue(r) : r \in RowSet(df_val)} = {}
        /\ {RowValue(r) : r \in RowSet(df_train)} \cap {RowValue(r) : r \in RowSet(df_test)} = {}
        /\ {RowValue(r) : r \in RowSet(df_val)} \cap {RowValue(r) : r \in RowSet(df_test)} = {}
        /\ RowSet(df_train) \cup RowSet(df_val) \cup RowSet(df_test) = RowSet(df)
        /\ Len(df_train) + Len(df_val) + Len(df_test) = Len(df)

\* a split with all three parts non-empty
C2_Witness ==
    /\ SplitDone
    /\ Len(df_train) > 0
    /\ Len(df_val) > 0
    /\ Len(df_test) > 0

\* C3: output_split is stratified: of a label class with c records df_train
\* holds round(fraction * c) distinct records of that class; of the r records
\* not in df_train, df_val holds round(0.5 * r) and df_test the other
\* r - round(0.5 * r); the sizes of df_val and df_test differ by at most 1.
C3_SplitIsStratified ==
    SplitDone =>
        /\ \A l \in LabelSet(df) :
              /\ ClassRows(df_train, l) \subseteq ClassRows(df, l)
              /\ IsRounded(Cardinality(ClassRows(df_train, l)),
                           TrainFractionTenths, Cardinality(ClassRows(df, l)))
        /\ Cardinality(RowSet(df_train)) = Len(df_train)
        /\ LabelSet(df_train) \subseteq LabelSet(df)
        /\ LET r == Cardinality(RowSet(df) \ RowSet(df_train))
           IN /\ IsRounded(Len(df_val), ValFractionTenths, r)
              /\ Len(df_test) = r - Len(df_val)
              /\ Len(df_val) - Len(df_test) \in {-1, 0, 1}

\* a split of two classes, one of them with two records of which one went to
\* training, and one record each in validation and test
C3_Witness ==
    /\ SplitDone
    /\ Cardinality(LabelSet(df)) = 2
    /\ \E l \in LabelSet(df) :
          /\ Cardinality(ClassRows(df, l)) = 2
          /\ Cardinality(ClassRows(df_train, l)) = 1
    /\ Len(df_val) = 1
    /\ Len(df_test) = 1

\* C4: create_label2index is a bijection from the distinct original labels
\* onto 0..n-1; after reindex two records have equal indices iff they had
\* equal original labels; every record of every split carries the index the
\* one mapping gives its original label.
C4_LabelIndexIsBijection ==
    /\ AfterCreateLabel2Index =>
          LET n == Cardinality(DOMAIN label2index)
          IN /\ DOMAIN label2index = {Orig(df[i]) : i \in 1..Len(df)}
             /\ \A a, b \in DOMAIN label2index :
                    label2index[a] = label2index[b] => a = b
             /\ {label2index[a] : a \in DOMAIN label2index} = 0..(n - 1)
    /\ AfterReindex =>
          /\ \A i, j \in 1..Len(df) :
                 (df[i].index = df[j].index) <=> (Orig(df[i]) = Orig(df[j]))
          /\ \A i \in 1..Len(df) : df[i].index = label2index[Orig(df[i])]
          /\ num_labels = Cardinality(DOMAIN label2index)
    /\ SplitDone =>
          \A r \in RowSet(df_train) \cup RowSet(df_val) \cup RowSet(df_test) :
              r.index = label2index[Orig(r)]

\* two labels, the larger one first in the file so that it gets index 0, and
\* records in all three splits
C4_Witness ==
    /\ SplitDone
    /\ DOMAIN label2index = {1, 2}
    /\ label2index[2] = 0
    /\ Len(df_train) > 0
    /\ Len(df_val) > 0
    /\ Len(df_test) > 0

\* C8: a run with the test-mode switch set and no starting model path prints
\* the message and returns normally: no exception, and nothing else done (no
\* data read, no dataset built, no training, no save, no prediction file).
C8_TestModeWithoutModelReturns ==
    (args.parsed /\ args.do_test /\ ~args.model_start) =>
        IF pc = "do_test"
        THEN effects = {} /\ ENABLED TestModeNoModel
        ELSE /\ pc = "returned"
             /\ exc = "none"
             /\ effects = {"printed_provide_model"}

C8_Witness ==
    /\ pc = "returned"
    /\ args.parsed
    /\ args.do_test
    /\ ~args.model_start
    /\ effects = {"printed_provide_model"}

\* C9: a training-mode run on a data file whose records survive
\* preprocessing ends having saved the model directory.
C9_TrainingRunSavesModel ==
    (/\ pc \in {"returned", "raised", "exited"}
     /\ args.parsed
     /\ ~args.do_test
     /\ Len(df) > 0)
        => "saved_model" \in effects

----------------------------------------------------------------------------
(* Properties of create_mini_batch (checked under SpecBatch) *)

SampleLen(i) == Len(samples[i].tokens_tensor)
MaxSampleLen == Max({SampleLen(i) : i \in 1..Len(samples)})

\* C5: tokens, segments and mask tensors all have the shape
\* (k, max_i l_i); row i of the tokens tensor is sample i's token ids in
\* positions 0..l_i-1 and 0 from l_i on; rows keep the order of the samples.
C5_BatchIsRectangularRightPadded ==
    batch.made =>
        /\ Len(batch.tokens_tensors) = Len(samples)
        /\ Len(batch.segments_tensors) = Len(samples)
        /\ Len(batch.masks_tensors) = Len(samples)
        /\ \A i \in 1..Len(samples) :
              /\ Len(batch.tokens_tensors[i]) = MaxSampleLen
              /\ Len(batch.segments_tensors[i]) = MaxSampleLen
              /\ Len(batch.masks_tensors[i]) = MaxSampleLen
              /\ \A j \in 1..MaxSampleLen :
                    batch.tokens_tensors[i][j] =
                        IF j <= SampleLen(i) THEN samples[i].tokens_tensor[j] ELSE 0

\* a batch of two samples of different lengths
C5_Witness ==
    /\ batch.made
    /\ Len(samples) = 2
    /\ SampleLen(1) < SampleLen(2)

\* C6: for every token-id content (sequences containing the id 0 included)
\* mask[i][j] = 1 iff position j belongs to sample i's original sequence, and
\* 0 iff it was added by padding.
C6_MaskMarksExactlyNonPad ==
    batch.made =>
        \A i \in 1..Len(samples) : \A j \in 1..MaxSampleLen :
            /\ (batch.masks_tensors[i][j] = 1) <=> (j <= SampleLen(i))
            /\ (batch.masks_tensors[i][j] = 0) <=> (j > SampleLen(i))

----------------------------------------------------------------------------
(* Properties of Model.train and get_predictions (checked under SpecTrain) *)

\* train has ended, by returning or by an exception raised inside it
TrainEnded ==
    \/ t_pc \in {"trained", "saved", "predicted"}
    \/ t_pc = "get_predictions" /\ gp.site = "predict"
    \/ t_pc = "raised" /\ gp_result.site # "predict"

IsPrefix(p, q) == Len(p) <= Len(q) /\ \A i \in 1..Len(p) : p[i] = q[i]

\* C7: every training batch is processed in the order zero_grad, forward,
\* backward, clip_grad_norm, step; a call of train with `epochs` epochs
\* steps the optimizer exactly epochs * (number of batches) times and
\* evaluates the validation set exactly once per epoch, after the epoch's
\* steps and before any step of the next epoch.
C7_TrainLoopContract ==
    /\ IsPrefix(batch_ops, FullBatchOps)
    /\ (t_pc = "batch_head" /\ batch_i > 0) => batch_ops = FullBatchOps
    /\ (t_pc = "get_predictions" /\ gp.site = "validation") =>
          /\ val_evals = epoch + 1
          /\ opt_steps = (epoch + 1) * NumBatches(n_train)
    /\ t_pc \in {"batch_head", "zero_grad", "forward", "backward",
                 "clip_grad_norm", "step"} => val_evals = epoch
    /\ TrainEnded =>
          /\ opt_steps = epochs * NumBatches(n_train)
          /\ val_evals = epochs

\* samples in the first b batches of a loader over n samples
SamplesIn(n, b) == IF b * batch_size <= n THEN b * batch_size ELSE n

\* C10: get_predictions returns one prediction per sample, in batch order;
\* with compute_acc, after each batch 0 <= correct <= total and total is the
\* number of samples processed so far, and the call returns the accuracy
\* correct / total, a value in [0, 1], for every loader, one that yields no
\* batch included.
C10_GetPredictionsContract ==
    /\ gp.active =>
          /\ gp.seen = SamplesIn(gp.n, gp.b)
          /\ Len(gp.predictions.v) = gp.seen
          /\ gp.compute_acc =>
                /\ 0 <= gp.correct
                /\ gp.correct <= gp.total
                /\ gp.total = gp.seen
    /\ (gp_result.status # "none" /\ gp_result.site # "predict") =>
          /\ gp_result.status = "returned"
          /\ gp_result.acc[2] > 0
          /\ 0 <= gp_result.acc[1]
          /\ gp_result.acc[1] <= gp_result.acc[2]
    /\ gp_result.status # "none" =>
          Len(gp_result.predictions.v) =
              CASE gp_result.site = "validation" -> n_val
                [] gp_result.site = "predict" -> n_test
                [] OTHER -> n_train

====
